---- MODULE Spec2Model ----
(***************************************************************************)
(* A model of the contract populator: the placeholder resolver and the     *)
(* template engine of src/src/generators/contract_generator.py, the        *)
(* upload loop and the generation handler of src/app.py, and the           *)
(* dispatch of src/src/loaders/document_loader.py.                         *)
(*                                                                         *)
(* Text is a sequence of symbols.  A symbol is a string: a brace, a field  *)
(* name (client_name, machine_name, ...) taken as one symbol, or a piece   *)
(* of literal text.  Substring search and replacement work on symbols the  *)
(* way Python's work on characters.                                        *)
(***************************************************************************)
EXTENDS Integers, Sequences, FiniteSets, TLC

VARIABLES
    \* the resolver applied to one text
    rIn, rData, rKey, rOut, rPc,
    \* the template engine applied to one document
    tmpl, doc, data, prevDoc, prevData, ePc,
    \* process_documents
    uploads, upIdx, upPc, combined, tempFiles, upLog, upFailed, upResult,
    \* the 'Generate Final Contract' handler, one run per session
    clock, templateFile, outFiles, outDirs, gRun, gLost,
    \* the loop over the fields of the Record, in a given order and again
    oText, oData, oOrder, oOut, oAgain, oPc,
    \* from the extraction result through the form to the Record
    xExtracted, xEdited, xUserEdit, xRecord, xFilled, xPc

rvars == <<rIn, rData, rKey, rOut, rPc>>
evars == <<tmpl, doc, data, prevDoc, prevData, ePc>>
uvars == <<uploads, upIdx, upPc, combined, tempFiles, upLog, upFailed, upResult>>
gvars == <<clock, templateFile, outFiles, outDirs, gRun, gLost>>
ovars == <<oText, oData, oOrder, oOut, oAgain, oPc>>
xvars == <<xExtracted, xEdited, xUserEdit, xRecord, xFilled, xPc>>
vars == <<rvars, evars, uvars, gvars, ovars, xvars>>

-----------------------------------------------------------------------------
(* Strings *)

LB == "{"
RB == "}"
Braces == {LB, RB}

\* `sub in text`
Contains(text, sub) ==
    \E i \in 1..(Len(text) - Len(sub) + 1) : SubSeq(text, i, i + Len(sub) - 1) = sub

\* text.replace(old, new), old not empty: the occurrences of old, left to
\* right and not overlapping.
RECURSIVE StrReplace(_, _, _)
StrReplace(text, old, new) ==
    IF Len(text) < Len(old) THEN text
    ELSE IF SubSeq(text, 1, Len(old)) = old
         THEN new \o StrReplace(SubSeq(text, Len(old) + 1, Len(text)), old, new)
         ELSE <<Head(text)>> \o StrReplace(Tail(text), old, new)

RECURSIVE LStrip(_, _)
LStrip(s, chars) ==
    IF s # <<>> /\ Head(s) \in chars THEN LStrip(Tail(s), chars) ELSE s

RECURSIVE RStrip(_, _)
RStrip(s, chars) ==
    IF s # <<>> /\ s[Len(s)] \in chars THEN RStrip(SubSeq(s, 1, Len(s) - 1), chars) ELSE s

\* s.strip(chars)
Strip(s, chars) == RStrip(LStrip(s, chars), chars)

\* sep.join(list)
RECURSIVE Join(_, _)
Join(list, sep) ==
    IF list = <<>> THEN <<>>
    ELSE IF Len(list) = 1 THEN Head(list)
    ELSE Head(list) \o sep \o Join(Tail(list), sep)

Digit == <<"0", "1", "2", "3", "4", "5", "6", "7", "8", "9">>

\* str(n) of an int
RECURSIVE IntToText(_)
IntToText(n) ==
    IF n < 0 THEN <<"-">> \o IntToText(0 - n)
    ELSE IF n < 10 THEN <<Digit[n + 1]>>
    ELSE IntToText(n \div 10) \o <<Digit[(n % 10) + 1]>>

MonthAbbr == <<"Jan", "Feb", "Mar", "Apr", "May", "Jun",
               "Jul", "Aug", "Sep", "Oct", "Nov", "Dec">>

\* value.strftime("%d %b, %Y")
FormatDate(d) ==
    (IF d.day < 10 THEN <<"0">> ELSE <<>>) \o IntToText(d.day)
        \o <<" ", MonthAbbr[d.month], ",", " ">> \o IntToText(d.year)

-----------------------------------------------------------------------------
(* The Record: ContractData and its model_dump() *)

\* The fields of ContractData, in the order model_dump() lists them.
FieldOrder == <<"client_name", "effective_date", "machine_names",
                "subscription_duration_months", "purchase_order", "address">>

Fields == {FieldOrder[i] : i \in 1..Len(FieldOrder)}

DefaultAddress == <<"Unit IV, Darjeeling Road, Kolkata, West Bengal">>

\* A value as replace_in_text receives it: a str, a list of str, a date or
\* an int.
StrVal(t)  == [kind |-> "str",  val |-> t]
ListVal(l) == [kind |-> "list", val |-> l]
DateVal(d) == [kind |-> "date", val |-> d]
IntVal(n)  == [kind |-> "int",  val |-> n]

\* data_dict[key]
FieldValue(rec, key) ==
    CASE key = "client_name" -> StrVal(rec.client_name)
      [] key = "effective_date" -> DateVal(rec.effective_date)
      [] key = "machine_names" -> ListVal(rec.machine_names)
      [] key = "subscription_duration_months" -> IntVal(rec.subscription_duration_months)
      [] key = "purchase_order" -> StrVal(rec.purchase_order)
      [] key = "address" -> StrVal(rec.address)

-----------------------------------------------------------------------------
(* The Placeholder Resolver: replace_in_text *)

\* The value's string form: a list joined with ", ", a date formatted, and
\* str() of anything else.
NormalizeValue(value) ==
    CASE value.kind = "list" -> Join(value.val, <<",", " ">>)
      [] value.kind = "date" -> FormatDate(value.val)
      [] value.kind = "int" -> IntToText(value.val)
      [] OTHER -> value.val

SingleBrace(key) == <<LB, key, RB>>
DoubleBrace(key) == <<LB, LB, key, RB, RB>>

\* The six entries of the placeholders list: the f-strings spell only two
\* different texts.
Placeholders(key) ==
    <<SingleBrace(key), DoubleBrace(key), SingleBrace(key),
      DoubleBrace(key), DoubleBrace(key), SingleBrace(key)>>

\* str(value).strip('{}')
ValueStr(value) == Strip(value, Braces)

\* One turn of the loop over placeholders: the replacement and the cleanup
\* of a brace pair around the value.
ApplyPlaceholder(text, placeholder, value) ==
    IF Contains(text, placeholder)
    THEN LET value_str == ValueStr(value)
             replaced == StrReplace(text, placeholder, value_str)
         IN  StrReplace(replaced, <<LB>> \o value_str \o <<RB>>, value_str)
    ELSE text

RECURSIVE ApplyPlaceholders(_, _, _)
ApplyPlaceholders(text, placeholders, value) ==
    IF placeholders = <<>> THEN text
    ELSE LET next == ApplyPlaceholder(text, Head(placeholders), value)
         IN  \* the test has TLC evaluate next before the next turn
             IF Len(next) >= 0
             THEN ApplyPlaceholders(next, Tail(placeholders), value)
             ELSE next

replace_in_text(text, key, value) ==
    ApplyPlaceholders(text, Placeholders(key), NormalizeValue(value))

\* for key, value in data_dict.items(): text = replace_in_text(text, key, value)
RECURSIVE ResolveKeys(_, _, _)
ResolveKeys(text, rec, keys) ==
    IF keys = <<>> THEN text
    ELSE LET next == replace_in_text(text, Head(keys), FieldValue(rec, Head(keys)))
         IN  \* the test has TLC evaluate next before the next turn
             IF Len(next) >= 0
             THEN ResolveKeys(next, rec, Tail(keys))
             ELSE next

ResolveFields(text, rec) == ResolveKeys(text, rec, FieldOrder)

-----------------------------------------------------------------------------
(* The Document Template Engine: _replace_placeholders                      *)
(*                                                                         *)
(* A document is [paragraphs, tables]; a table is [grid, rows], grid the   *)
(* number of columns of its grid (what add_row gives a new row), rows a    *)
(* sequence of rows; a row is a sequence of cells and a cell a sequence    *)
(* of paragraph texts.  A row's cells are those of its own element, also   *)
(* when the row has been removed from its table (python-docx 1.1.1 on).    *)

\* Symbols whose lower-cased text contains "machine".
MachineSymbols == {"machine", "Machine", "MACHINE", "machine_name", "machine_names"}

\* "machine" in p.text.lower()
TextHasMachine(text) == \E i \in 1..Len(text) : text[i] \in MachineSymbols

\* The scan that sets is_machine_table.
is_machine_table(table) ==
    \E r \in 1..Len(table.rows) : \E c \in 1..Len(table.rows[r]) :
        \E p \in 1..Len(table.rows[r][c]) : TextHasMachine(table.rows[r][c][p])

\* Mutant: the machine-name test of the branch dropped.
ExpansionBranchAnyList(table, rec) == is_machine_table(table)

\* if is_machine_table and data_dict.get('machine_names')
ExpansionBranch(table, rec) ==
    is_machine_table(table) /\ rec.machine_names # <<>>

\* The text set on a new cell for one paragraph of the template cell:
\* machine_name first, then every field of the Record.
CellParagraphText(p, machine, rec) ==
    ResolveFields(replace_in_text(p, "machine_name", StrVal(machine)), rec)

\* new_cell.text = text, once per paragraph of the template cell: the
\* setter replaces the cell's content by one paragraph.
RECURSIVE FillCell(_, _, _, _)
FillCell(new_cell, paragraphs, machine, rec) ==
    IF paragraphs = <<>> THEN new_cell
    ELSE FillCell(<<CellParagraphText(Head(paragraphs), machine, rec)>>,
                  Tail(paragraphs), machine, rec)

\* A cell as add_row makes it: one empty paragraph.
EmptyCell == << <<>> >>

\* The row added for one machine, its cells filled from the template row's.
NewRow(template_row, machine, rec, grid) ==
    [i \in 1..grid |->
        IF i <= Len(template_row)
        THEN FillCell(EmptyCell, template_row[i], machine, rec)
        ELSE EmptyCell]

\* The machine branch.  new_row.cells[i] raises IndexError when the
\* template row has more cells than the table's grid has columns; that
\* happens on the first machine's row, after the rows were removed (with
\* no machine there is no row to add, and nothing raises).
ExpandMachineTable(table, rec) ==
    IF Len(table.rows) > 1
    THEN LET template_row == table.rows[2]
             header == <<table.rows[1]>>
             names == rec.machine_names
         IN  IF names # <<>> /\ Len(template_row) > table.grid
             THEN [table |-> [table EXCEPT !.rows =
                                header \o <<NewRow(template_row, names[1], rec, table.grid)>>],
                   raised |-> TRUE]
             ELSE [table |-> [table EXCEPT !.rows =
                                header \o [k \in 1..Len(names) |->
                                    NewRow(template_row, names[k], rec, table.grid)]],
                   raised |-> FALSE]
    ELSE [table |-> table, raised |-> FALSE]

\* Mutant: the first row of a regular table left as it is.
ResolveCellsSkipFirstRow(table, rec) ==
    [table EXCEPT !.rows =
        [r \in 1..Len(table.rows) |->
            IF r = 1 THEN table.rows[r]
            ELSE [c \in 1..Len(table.rows[r]) |->
                    [p \in 1..Len(table.rows[r][c]) |->
                        ResolveFields(table.rows[r][c][p], rec)]]]]

\* The regular branch: every paragraph of every cell resolved in place.
ResolveCells(table, rec) ==
    [table EXCEPT !.rows =
        [r \in 1..Len(table.rows) |->
            [c \in 1..Len(table.rows[r]) |->
                [p \in 1..Len(table.rows[r][c]) |->
                    ResolveFields(table.rows[r][c][p], rec)]]]]

\* The body of the loop over doc.tables, for one table.
ProcessTable(table, rec) ==
    IF ExpansionBranch(table, rec)
    THEN ExpandMachineTable(table, rec)
    ELSE [table |-> ResolveCells(table, rec), raised |-> FALSE]

\* The loop over doc.tables: a table that raises ends it, the tables after
\* it untouched.
RECURSIVE ProcessTables(_, _)
ProcessTables(tables, rec) ==
    IF tables = <<>> THEN [tables |-> <<>>, raised |-> FALSE]
    ELSE LET first == ProcessTable(Head(tables), rec)
         IN  IF first.raised
             THEN [tables |-> <<first.table>> \o Tail(tables), raised |-> TRUE]
             ELSE LET rest == ProcessTables(Tail(tables), rec)
                  IN  [tables |-> <<first.table>> \o rest.tables, raised |-> rest.raised]

\* The loop over doc.paragraphs.
ResolveParagraphs(paragraphs, rec) ==
    [i \in 1..Len(paragraphs) |-> ResolveFields(paragraphs[i], rec)]

\* _replace_placeholders(doc, data): the document as mutated, and whether
\* the call raised.
ReplacePlaceholders(d, rec) ==
    LET done == ProcessTables(d.tables, rec)
    IN  [doc |-> [paragraphs |-> ResolveParagraphs(d.paragraphs, rec),
                  tables |-> done.tables],
         raised |-> done.raised]

-----------------------------------------------------------------------------
(* The engine's inputs: templates and Records *)

MaxDataRows == 2
MaxMachines == 2

\* A cell of one paragraph.
Cell(text) == <<text>>

\* Header rows: one naming machines, one naming machines with a field in
\* it, one that has nothing of a machine table.
HeaderRows ==
    { <<Cell(<<"Machine">>), Cell(<<"Client">>)>>,
      <<Cell(<<"Machine", "of", LB, "client_name", RB>>), Cell(<<"Client">>)>>,
      <<Cell(<<"Item">>), Cell(<<"Client">>)>> }

\* Data rows: a template row for machines, a row of literal text, and a
\* row whose first cell has two paragraphs.
DataRows ==
    { <<Cell(<<LB, "machine_name", RB>>), Cell(<<LB, LB, "client_name", RB, RB>>)>>,
      <<Cell(<<"a">>), Cell(<<"b">>)>>,
      << <<(<<"No.", LB, "purchase_order", RB>>), <<"c">> >>, Cell(<<LB, "client_name", RB>>)>> }

RECURSIVE SeqsUpTo(_, _)
SeqsUpTo(S, n) ==
    IF n = 0 THEN {<<>>}
    ELSE LET shorter == SeqsUpTo(S, n - 1)
         IN  shorter \cup {Append(q, x) : q \in shorter, x \in S}

\* A table's grid has the columns of its rows, or one column less (a
\* table whose tblGrid is short of its rows).
TemplateTables ==
    { [grid |-> g, rows |-> <<h>> \o rs] :
        g \in {1, 2}, h \in HeaderRows, rs \in SeqsUpTo(DataRows, MaxDataRows) }

\* A table of one row and one cell, with a field in it.
TermsTable == [grid |-> 1, rows |-> << <<Cell(<<"PO", LB, "purchase_order", RB>>)>> >>]

ParagraphLists ==
    { << <<"Agreement">>, <<"terms">> >>,
      << <<"Dear", LB, LB, "client_name", RB, RB>>, <<"from", LB, "effective_date", RB>> >> }

Templates ==
    { [paragraphs |-> ps, tables |-> ts] :
        ps \in ParagraphLists,
        ts \in { <<t>> : t \in TemplateTables } \cup { <<TermsTable, t>> : t \in TemplateTables } }

MachineNames == { <<"M1">>, <<"M2">> }

RecordOf(client, machines) ==
    [client_name |-> client,
     effective_date |-> [year |-> 2024, month |-> 3, day |-> 5],
     machine_names |-> machines,
     subscription_duration_months |-> 12,
     purchase_order |-> <<"PO-1">>,
     address |-> DefaultAddress]

EngineRecords ==
    { RecordOf(<<"Acme">>, ms) : ms \in SeqsUpTo(MachineNames, MaxMachines) }

-----------------------------------------------------------------------------
(* The engine as a state machine: a template loaded into doc, then         *)
(* _replace_placeholders called on it, and called once more on the same    *)
(* document.                                                               *)

EInit ==
    /\ tmpl \in Templates
    /\ doc = tmpl
    /\ prevDoc = tmpl
    /\ data = RecordOf(<<>>, <<>>)
    /\ prevData = RecordOf(<<>>, <<>>)
    /\ ePc = "loaded"

EIdle ==
    /\ tmpl = [paragraphs |-> <<>>, tables |-> <<>>]
    /\ doc = tmpl
    /\ prevDoc = tmpl
    /\ data = RecordOf(<<>>, <<>>)
    /\ prevData = data
    /\ ePc = "idle"

\* _replace_placeholders(doc, rec) on the template as loaded.
Replace(rec) ==
    /\ UNCHANGED <<rvars, uvars, gvars, ovars, xvars>>
    /\ ePc = "loaded"
    /\ LET res == ReplacePlaceholders(doc, rec)
       IN  /\ doc' = res.doc
           /\ ePc' = IF res.raised THEN "raised" ELSE "replaced"
    /\ prevDoc' = doc
    /\ data' = rec
    /\ prevData' = data
    /\ UNCHANGED tmpl

\* _replace_placeholders(doc, rec) called again on the document the first
\* call left, with any list of machines.
Rerun(rec) ==
    /\ UNCHANGED <<rvars, uvars, gvars, ovars, xvars>>
    /\ ePc = "replaced"
    /\ LET res == ReplacePlaceholders(doc, rec)
       IN  /\ doc' = res.doc
           /\ ePc' = IF res.raised THEN "raised2" ELSE "rerun"
    /\ prevDoc' = doc
    /\ data' = rec
    /\ prevData' = data
    /\ UNCHANGED tmpl

\* One call on the template as loaded.
ENext == \E rec \in EngineRecords : Replace(rec)

\* A call, and a second call on the same document.
ERerunNext ==
    \/ \E rec \in EngineRecords : Replace(rec)
    \/ \E rec \in EngineRecords : Rerun(rec)

-----------------------------------------------------------------------------
(* The resolver as a state machine: one text and one Record, and either    *)
(* replace_in_text for one field or the loop over all fields.              *)

MaxSegments == 3

\* What a text is made of: braces, literal text, names, and whole
\* placeholders of two fields and of a name U that is no field.
Segments ==
    { <<LB>>, <<RB>>, <<"a">>, <<"U">>, <<"client_name">>,
      SingleBrace("client_name"), SingleBrace("machine_names"), SingleBrace("U") }

RECURSIVE Flatten(_)
Flatten(ss) == IF ss = <<>> THEN <<>> ELSE Head(ss) \o Flatten(Tail(ss))

ResolverTexts == { Flatten(ss) : ss \in SeqsUpTo(Segments, MaxSegments) }

\* Client names: plain, empty, the name U, and one wrapped in braces.
ResolverRecords ==
    { RecordOf(c, ms) :
        c \in { <<"a">>, <<>>, <<"U">>, <<LB, "a", RB>> },
        ms \in { <<>>, << <<"M1">>, <<"M2">> >> } }

RInit ==
    /\ rIn \in ResolverTexts
    /\ rData \in ResolverRecords
    /\ rKey = ""
    /\ rOut = rIn
    /\ rPc = "start"

RIdle ==
    /\ rIn = <<>>
    /\ rData = RecordOf(<<>>, <<>>)
    /\ rKey = ""
    /\ rOut = <<>>
    /\ rPc = "idle"

\* text = replace_in_text(text, key, value) for one field of the Record.
ResolveOne(key) ==
    /\ UNCHANGED <<evars, uvars, gvars, ovars, xvars>>
    /\ rPc = "start"
    /\ rOut' = replace_in_text(rIn, key, FieldValue(rData, key))
    /\ rKey' = key
    /\ rPc' = "one"
    /\ UNCHANGED <<rIn, rData>>

\* The loop over data_dict.items() on one text.
ResolveAll ==
    /\ UNCHANGED <<evars, uvars, gvars, ovars, xvars>>
    /\ rPc = "start"
    /\ rOut' = ResolveFields(rIn, rData)
    /\ rPc' = "all"
    /\ UNCHANGED <<rIn, rData, rKey>>

RNext ==
    \/ \E key \in Fields : ResolveOne(key)
    \/ ResolveAll

-----------------------------------------------------------------------------
(* process_documents and DocumentLoader.load_document *)

MaxFiles == 2

Whitespace == {" ", "\n", "\t"}

\* An uploaded file: its name's stem and suffix, the text its content
\* holds, and whether "temp_" + name is longer than a file name may be.
UploadedFiles ==
    { [stem |-> n, suffix |-> e, text |-> t, tooLong |-> (n = "long")] :
        n \in {"po", "long"},
        e \in {".txt", ".PDF", ".xyz"},
        t \in { <<>>, <<"x">>, <<" ", "y">> } }

\* Path(f"temp_{uploaded_file.name}")
TempPath(file) == <<"temp_", file.stem, file.suffix>>

\* file_path.suffix.lower()
LowerSuffix(suffix) ==
    CASE suffix = ".PDF" -> ".pdf"
      [] suffix = ".TXT" -> ".txt"
      [] suffix = ".DOCX" -> ".docx"
      [] OTHER -> suffix

SupportedSuffixes == {".txt", ".docx", ".pdf", ".png", ".jpg", ".jpeg"}

\* load_document(file_path): FileNotFoundError, ValueError for a suffix
\* that is not supported, and otherwise what the suffix's loader gives,
\* which is the text or an exception of its own.
load_document(path, exists, loaderRaises, content) ==
    IF ~exists THEN [raised |-> TRUE, text |-> <<>>]
    ELSE IF LowerSuffix(path[3]) \notin SupportedSuffixes
         THEN [raised |-> TRUE, text |-> <<>>]
    ELSE IF loaderRaises THEN [raised |-> TRUE, text |-> <<>>]
    ELSE [raised |-> FALSE, text |-> content]

UInit ==
    /\ uploads \in SeqsUpTo(UploadedFiles, MaxFiles)
    /\ upIdx = 1
    /\ upPc = "save"
    /\ combined = <<>>
    /\ tempFiles = {}
    /\ upLog = {}
    /\ upFailed = {}
    /\ upResult = <<>>

UIdle ==
    /\ uploads = <<>>
    /\ upIdx = 1
    /\ upPc = "idle"
    /\ combined = <<>>
    /\ tempFiles = {}
    /\ upLog = {}
    /\ upFailed = {}
    /\ upResult = <<>>

\* The files at their temporary paths: a set of [path, content].
TempExists(path) == \E f \in tempFiles : f.path = path
TempContent(path) == (CHOOSE f \in tempFiles : f.path = path).content
TempWithout(path) == {f \in tempFiles : f.path # path}

\* open(temp_path, "wb") and f.write(...): written, or open fails (no file
\* is made), or the write fails (the file is there, cut short).  A name
\* too long makes open fail.
SaveTemp(outcome) ==
    /\ UNCHANGED <<rvars, evars, gvars, ovars, xvars>>
    /\ upPc = "save"
    /\ upIdx <= Len(uploads)
    /\ LET file == uploads[upIdx]
           path == TempPath(file)
       IN  /\ file.tooLong => outcome = "open_fails"
           /\ CASE outcome = "written" ->
                     /\ tempFiles' = TempWithout(path) \cup {[path |-> path, content |-> file.text]}
                     /\ upPc' = "load"
                     /\ UNCHANGED <<upLog, upFailed>>
                [] outcome = "open_fails" ->
                     /\ upPc' = "cleanup"
                     /\ upLog' = upLog \cup {<<"error", upIdx>>}
                     /\ upFailed' = upFailed \cup {upIdx}
                     /\ UNCHANGED tempFiles
                [] outcome = "write_fails" ->
                     /\ tempFiles' = TempWithout(path) \cup {[path |-> path, content |-> <<>>]}
                     /\ upPc' = "cleanup"
                     /\ upLog' = upLog \cup {<<"error", upIdx>>}
                     /\ upFailed' = upFailed \cup {upIdx}
    /\ UNCHANGED <<uploads, upIdx, combined, upResult>>

\* text_content = document_loader.load_document(temp_path); the text is
\* added to combined_text when it is not empty.  An exception is logged.
LoadStep(loaderRaises) ==
    /\ UNCHANGED <<rvars, evars, gvars, ovars, xvars>>
    /\ upPc = "load"
    /\ LET path == TempPath(uploads[upIdx])
           res == load_document(path, TempExists(path), loaderRaises,
                                IF TempExists(path) THEN TempContent(path) ELSE <<>>)
       IN  IF res.raised
           THEN /\ upLog' = upLog \cup {<<"error", upIdx>>}
                /\ upFailed' = upFailed \cup {upIdx}
                /\ UNCHANGED combined
           ELSE /\ combined' = IF res.text # <<>>
                               THEN combined \o res.text \o <<"\n", "\n">>
                               ELSE combined
                /\ UNCHANGED <<upLog, upFailed>>
    /\ upPc' = "cleanup"
    /\ UNCHANGED <<uploads, upIdx, tempFiles, upResult>>

\* The finally block.  temp_path.exists() raises OSError for a name too
\* long (pathlib before Python 3.13 passes on every errno but ENOENT,
\* ENOTDIR, EBADF and ELOOP) or gives False (3.13 on); unlink removes the
\* file, or fails and is logged.
Cleanup(outcome) ==
    /\ UNCHANGED <<rvars, evars, gvars, ovars, xvars>>
    /\ upPc = "cleanup"
    /\ LET file == uploads[upIdx]
           path == TempPath(file)
       IN  CASE outcome = "exists_raises" ->
                     /\ file.tooLong
                     /\ upPc' = "raised"
                     /\ UNCHANGED <<tempFiles, upLog, upIdx>>
                [] outcome = "absent" ->
                     /\ file.tooLong \/ ~TempExists(path)
                     /\ upPc' = "save"
                     /\ upIdx' = upIdx + 1
                     /\ UNCHANGED <<tempFiles, upLog>>
                [] outcome = "unlinked" ->
                     /\ ~file.tooLong /\ TempExists(path)
                     /\ tempFiles' = TempWithout(path)
                     /\ upPc' = "save"
                     /\ upIdx' = upIdx + 1
                     /\ UNCHANGED upLog
                [] outcome = "unlink_fails" ->
                     /\ ~file.tooLong /\ TempExists(path)
                     /\ upLog' = upLog \cup {<<"cleanup_error", path>>}
                     /\ upPc' = "save"
                     /\ upIdx' = upIdx + 1
                     /\ UNCHANGED tempFiles
    /\ UNCHANGED <<uploads, combined, upFailed, upResult>>

\* return combined_text.strip()
ReturnCombined ==
    /\ UNCHANGED <<rvars, evars, gvars, ovars, xvars>>
    /\ upPc = "save"
    /\ upIdx > Len(uploads)
    /\ upResult' = Strip(combined, Whitespace)
    /\ upPc' = "done"
    /\ UNCHANGED <<uploads, upIdx, combined, tempFiles, upLog, upFailed>>

UNext ==
    \/ \E outcome \in {"written", "open_fails", "write_fails"} : SaveTemp(outcome)
    \/ \E loaderRaises \in BOOLEAN : LoadStep(loaderRaises)
    \/ \E outcome \in {"exists_raises", "absent", "unlinked", "unlink_fails"} : Cleanup(outcome)
    \/ ReturnCombined

-----------------------------------------------------------------------------
(* The 'Generate Final Contract' handler of main, and generate_contract.   *)
(* Each session runs the handler in a thread of its own; the sessions      *)
(* share the clock, the template file and the output directory.            *)

MaxClock == 1

Sessions == {"s1", "s2"}

\* Purchase orders as typed, character by character.
PurchaseOrders == { <<"7", "/", "1">>, <<"7", "\\", "1">>, <<"8">> }

\* The machine names as the text area gives them: "".split("\n") is [""].
MachineInputs == { << <<>> >>, << <<"M1">> >> }

\* The template file: a template, one whose table grid is short of its
\* rows, a file that is no document, or no file.
TemplateStates == {"ok", "shortgrid", "corrupt", "missing"}

TemplateDoc(state) ==
    [paragraphs |-> << <<"Dear", LB, "client_name", RB>> >>,
     tables |-> << [grid |-> IF state = "shortgrid" THEN 1 ELSE 2,
                    rows |-> << <<Cell(<<"Machine">>), Cell(<<"PO">>)>>,
                                <<Cell(<<LB, "machine_name", RB>>),
                                  Cell(<<LB, "purchase_order", RB>>)>> >>] >>]

\* purchase_order.replace("/", "_").replace("\\", "_")
SafePo(po) == StrReplace(StrReplace(po, <<"/">>, <<"_">>), <<"\\">>, <<"_">>)

NoPath == [dir |-> 0 - 1, name |-> <<>>]

\* os.path.join("output", f"generated_contract_{timestamp}",
\*              f"generated_contract_{safe_po}.docx")
OutputPath(timestamp, po) == [dir |-> timestamp, name |-> SafePo(po)]

IdleRun ==
    [pc |-> "idle", po |-> <<>>, machines |-> <<>>, path |-> NoPath, err |-> "none",
     loaded |-> FALSE, replaced |-> FALSE, saved |-> FALSE, failedAt |-> "none",
     contract |-> "none"]

GInit ==
    /\ clock = 0
    /\ templateFile \in TemplateStates
    /\ outFiles = {}
    /\ outDirs = {}
    /\ gRun = [s \in Sessions |-> IdleRun]
    /\ gLost = {}

GIdle ==
    /\ clock = 0
    /\ templateFile = "ok"
    /\ outFiles = {}
    /\ outDirs = {}
    /\ gRun = [s \in Sessions |-> [IdleRun EXCEPT !.pc = "off"]]
    /\ gLost = {}

FileAt(path) == {f \in outFiles : f.path = path}
FilesWithout(path) == {f \in outFiles : f.path # path}
\* The sessions other than s that own the file at path.
OthersAt(path, s) == {f.owner : f \in {g \in FileAt(path) : g.owner # s}}

\* The Record built from edited_data.
RunRecord(run) == [RecordOf(<<"Acme">>, run.machines) EXCEPT !.purchase_order = run.po]

\* The button is pressed with a purchase order and machine names in the
\* form; os.path.exists(template_path) is checked and FileNotFoundError
\* raised, which the handler's except clause reports: output_path is not
\* yet a local.
CheckTemplate(s, po, machines) ==
    /\ UNCHANGED <<rvars, evars, uvars, ovars, xvars>>
    /\ gRun[s].pc = "idle"
    /\ gRun' = [gRun EXCEPT ![s] =
            IF templateFile = "missing"
            THEN [@ EXCEPT !.pc = "failed", !.po = po, !.machines = machines,
                           !.err = "FileNotFoundError", !.failedAt = "check"]
            ELSE [@ EXCEPT !.pc = "path", !.po = po, !.machines = machines]]
    /\ UNCHANGED <<clock, templateFile, outFiles, outDirs, gLost>>

\* timestamp, os.makedirs(output_dir, exist_ok=True), safe_po, output_path
\* and ContractData(**edited_data).
BuildPath(s) ==
    /\ UNCHANGED <<rvars, evars, uvars, ovars, xvars>>
    /\ gRun[s].pc = "path"
    /\ outDirs' = outDirs \cup {clock}
    /\ gRun' = [gRun EXCEPT ![s] =
            [@ EXCEPT !.pc = "load", !.path = OutputPath(clock, gRun[s].po)]]
    /\ UNCHANGED <<clock, templateFile, outFiles, gLost>>

\* doc = Document(self.template_path)
LoadTemplate(s) ==
    /\ UNCHANGED <<rvars, evars, uvars, ovars, xvars>>
    /\ gRun[s].pc = "load"
    /\ gRun' = [gRun EXCEPT ![s] =
            IF templateFile \in {"missing", "corrupt"}
            THEN [@ EXCEPT !.pc = "handler", !.err = "PackageNotFoundError",
                           !.failedAt = "load"]
            ELSE [@ EXCEPT !.pc = "replace", !.loaded = TRUE]]
    /\ UNCHANGED <<clock, templateFile, outFiles, outDirs, gLost>>

\* Mutant: the exception of _replace_placeholders swallowed.
AfterReplaceSwallowed(run, raised) ==
    [run EXCEPT !.pc = "save", !.replaced = ~raised]

\* generate_contract after self._replace_placeholders(doc, data): on to
\* doc.save, or the exception logged and raised again.
AfterReplace(run, raised) ==
    IF raised
    THEN [run EXCEPT !.pc = "handler", !.err = "IndexError", !.failedAt = "replace"]
    ELSE [run EXCEPT !.pc = "save", !.replaced = TRUE]

\* self._replace_placeholders(doc, data)
ReplaceStep(s) ==
    /\ UNCHANGED <<rvars, evars, uvars, ovars, xvars>>
    /\ gRun[s].pc = "replace"
    /\ gRun' = [gRun EXCEPT ![s] =
            AfterReplace(@, ReplacePlaceholders(TemplateDoc(templateFile),
                                                RunRecord(@)).raised)]
    /\ UNCHANGED <<clock, templateFile, outFiles, outDirs, gLost>>

\* doc.save(output_path): the file written; or the save fails, with a
\* part of the file left or with none.
SaveStep(s, outcome) ==
    /\ UNCHANGED <<rvars, evars, uvars, ovars, xvars>>
    /\ gRun[s].pc = "save"
    /\ LET path == gRun[s].path
       IN  CASE outcome = "saved" ->
                     /\ outFiles' = FilesWithout(path)
                            \cup {[path |-> path, owner |-> s, complete |-> TRUE]}
                     /\ gLost' = gLost \cup OthersAt(path, s)
                     /\ gRun' = [gRun EXCEPT ![s] = [@ EXCEPT !.pc = "read", !.saved = TRUE]]
                [] outcome = "partial" ->
                     /\ outFiles' = FilesWithout(path)
                            \cup {[path |-> path, owner |-> s, complete |-> FALSE]}
                     /\ gLost' = gLost \cup OthersAt(path, s)
                     /\ gRun' = [gRun EXCEPT ![s] =
                            [@ EXCEPT !.pc = "handler", !.saved = TRUE,
                                      !.err = "OSError", !.failedAt = "save"]]
                [] outcome = "nothing" ->
                     /\ gRun' = [gRun EXCEPT ![s] =
                            [@ EXCEPT !.pc = "handler", !.saved = TRUE,
                                      !.err = "OSError", !.failedAt = "save"]]
                     /\ UNCHANGED <<outFiles, gLost>>
    /\ UNCHANGED <<clock, templateFile, outDirs>>

\* with open(output_path, "rb") as f: generated_contract = f.read()
ReadBack(s) ==
    /\ UNCHANGED <<rvars, evars, uvars, ovars, xvars>>
    /\ gRun[s].pc = "read"
    /\ LET at == FileAt(gRun[s].path)
       IN  gRun' = [gRun EXCEPT ![s] =
               IF at = {}
               THEN [@ EXCEPT !.pc = "handler", !.err = "FileNotFoundError",
                              !.failedAt = "read"]
               ELSE [@ EXCEPT !.pc = "remove",
                              !.contract = (CHOOSE f \in at : TRUE).owner]]
    /\ UNCHANGED <<clock, templateFile, outFiles, outDirs, gLost>>

\* os.remove(output_path) after the read; a failure is logged.
RemoveOutput(s) ==
    /\ UNCHANGED <<rvars, evars, uvars, ovars, xvars>>
    /\ gRun[s].pc = "remove"
    /\ outFiles' = FilesWithout(gRun[s].path)
    /\ gLost' = gLost \cup OthersAt(gRun[s].path, s)
    /\ gRun' = [gRun EXCEPT ![s] = [@ EXCEPT !.pc = "done"]]
    /\ UNCHANGED <<clock, templateFile, outDirs>>

\* The except clause of the handler: the error shown, and
\* os.remove(output_path) when output_path is a local.
Handler(s) ==
    /\ UNCHANGED <<rvars, evars, uvars, ovars, xvars>>
    /\ gRun[s].pc = "handler"
    /\ outFiles' = FilesWithout(gRun[s].path)
    /\ gLost' = gLost \cup OthersAt(gRun[s].path, s)
    /\ gRun' = [gRun EXCEPT ![s] = [@ EXCEPT !.pc = "failed"]]
    /\ UNCHANGED <<clock, templateFile, outDirs>>

\* A second passes.
Tick ==
    /\ UNCHANGED <<rvars, evars, uvars, ovars, xvars>>
    /\ clock < MaxClock
    /\ clock' = clock + 1
    /\ UNCHANGED <<templateFile, outFiles, outDirs, gRun, gLost>>

GNext ==
    \/ \E s \in Sessions, po \in PurchaseOrders, machines \in MachineInputs :
            CheckTemplate(s, po, machines)
    \/ \E s \in Sessions : BuildPath(s)
    \/ \E s \in Sessions : LoadTemplate(s)
    \/ \E s \in Sessions : ReplaceStep(s)
    \/ \E s \in Sessions, outcome \in {"saved", "partial", "nothing"} : SaveStep(s, outcome)
    \/ \E s \in Sessions : ReadBack(s)
    \/ \E s \in Sessions : RemoveOutput(s)
    \/ \E s \in Sessions : Handler(s)
    \/ Tick

-----------------------------------------------------------------------------
(* The loop over data_dict.items() on one text, the fields taken in a      *)
(* given order, and the same loop a second time on the text it gave.       *)

MaxOrderSegments == 2

\* Texts of placeholders of client_name and purchase_order.
OrderSegments ==
    { SingleBrace("client_name"), DoubleBrace("client_name"),
      SingleBrace("purchase_order") }

OrderTexts == { Flatten(ss) : ss \in SeqsUpTo(OrderSegments, MaxOrderSegments) }

\* Records whose strings are plain, are the name of another field, or hold
\* the placeholder of another field; no text holds a number of the Record.
OrderRecords ==
    { [RecordOf(c, <<>>) EXCEPT !.purchase_order = po] :
        c \in { <<"Acme">>, <<"purchase_order">>,
                <<"a", LB, "purchase_order", RB, "b">> },
        po \in { <<"PO-1">>, <<"a", LB, "client_name", RB, "b">> } }

\* Every order the fields of the Record can be taken in.
FieldOrders ==
    { [i \in 1..Len(FieldOrder) |-> FieldOrder[perm[i]]] :
        perm \in Permutations(1..Len(FieldOrder)) }

OInit ==
    /\ oText \in OrderTexts
    /\ oData \in OrderRecords
    /\ oOrder = FieldOrder
    /\ oOut = oText
    /\ oAgain = oText
    /\ oPc = "start"

OIdle ==
    /\ oText = <<>>
    /\ oData = RecordOf(<<>>, <<>>)
    /\ oOrder = FieldOrder
    /\ oOut = <<>>
    /\ oAgain = <<>>
    /\ oPc = "idle"

\* for key, value in data_dict.items(): text = replace_in_text(text, key,
\* value), with the items in the given order.
ResolveInOrder(order) ==
    /\ UNCHANGED <<rvars, evars, uvars, gvars, xvars>>
    /\ oPc = "start"
    /\ oOut' = ResolveKeys(oText, oData, order)
    /\ oOrder' = order
    /\ oPc' = "resolved"
    /\ UNCHANGED <<oText, oData, oAgain>>

\* The loop run again, in the order of the model's fields, on the text it
\* wrote back to the paragraph.
ResolveAgain ==
    /\ UNCHANGED <<rvars, evars, uvars, gvars, xvars>>
    /\ oPc = "resolved"
    /\ oOrder = FieldOrder
    /\ oAgain' = ResolveFields(oOut, oData)
    /\ oPc' = "again"
    /\ UNCHANGED <<oText, oData, oOrder, oOut>>

ONext ==
    \/ \E order \in FieldOrders : ResolveInOrder(order)
    \/ ResolveAgain

-----------------------------------------------------------------------------
(* From the extraction result to the Record: ContractExtractionAgent.extract, *)
(* the form of main and the Record the generation handler builds.           *)

Today == [day |-> 3, month |-> 11, year |-> 2026]

\* What the model answers with: JSON that parses or not, the effective
\* date given or not, the address a string, null or not given.
Answers ==
    [parsed : BOOLEAN, dateGiven : BOOLEAN,
     client_name : { <<"Acme">>, <<>> },
     machine_names : { <<>>, << <<"M1">> >>, << <<"M1">>, <<"M2">> >> },
     purchase_order : { <<"PO-1">>, <<>> },
     addressKind : {"str", "null", "absent"},
     address : { DefaultAddress, <<"12 Park Street">>, <<"Plot 9">> }]

\* The dictionary extract returns when parsing or validation fails.
DefaultExtraction ==
    [client_name |-> <<>>, effective_date |-> Today, machine_names |-> <<>>,
     subscription_duration_months |-> 12, purchase_order |-> <<>>]

\* ContractData(**extracted_data).dict(), or the default dictionary when
\* json.loads or the validation raises.
extract(answer) ==
    IF answer.parsed /\ answer.dateGiven /\ answer.addressKind # "null"
    THEN [client_name |-> answer.client_name,
          effective_date |-> [day |-> 5, month |-> 3, year |-> 2024],
          machine_names |-> answer.machine_names,
          subscription_duration_months |-> 12,
          purchase_order |-> answer.purchase_order,
          address |-> IF answer.addressKind = "str" THEN answer.address
                      ELSE DefaultAddress]
    ELSE DefaultExtraction

\* dict.get(key, default)
Get(d, key, default) == IF key \in DOMAIN d THEN d[key] ELSE default

\* str.split(sep) for a separator of one symbol.
RECURSIVE Split(_, _)
Split(text, sep) ==
    IF \E i \in 1..Len(text) : text[i] = sep
    THEN LET i == CHOOSE j \in 1..Len(text) :
                    text[j] = sep /\ \A k \in 1..(j - 1) : text[k] # sep
         IN  <<SubSeq(text, 1, i - 1)>> \o Split(SubSeq(text, i + 1, Len(text)), sep)
    ELSE <<text>>

\* edited_data as the form gives it when the widgets keep their values.
EditedData(extracted) ==
    [client_name |-> Get(extracted, "client_name", <<>>),
     effective_date |-> Get(extracted, "effective_date", Today),
     machine_names |->
        Split(Join(Get(extracted, "machine_names", <<>>), <<"\n">>), "\n"),
     subscription_duration_months |->
        Get(extracted, "subscription_duration_months", 12),
     purchase_order |-> Get(extracted, "purchase_order", <<>>)]

\* ContractData(**edited_data): a field that is not given has its default.
ContractDataOf(d) ==
    [client_name |-> Get(d, "client_name", <<>>),
     effective_date |-> d.effective_date,
     machine_names |-> Get(d, "machine_names", <<>>),
     subscription_duration_months |-> Get(d, "subscription_duration_months", 12),
     purchase_order |-> Get(d, "purchase_order", <<>>),
     address |-> Get(d, "address", DefaultAddress)]

\* A paragraph of the template with the address placeholder.
AddressParagraph == <<"Address: ", LB, "address", RB>>

XInit ==
    /\ xExtracted = <<>>
    /\ xEdited = <<>>
    /\ xUserEdit = FALSE
    /\ xRecord = <<>>
    /\ xFilled = AddressParagraph
    /\ xPc = "upload"

XIdle ==
    /\ xExtracted = <<>>
    /\ xEdited = <<>>
    /\ xUserEdit = FALSE
    /\ xRecord = <<>>
    /\ xFilled = <<>>
    /\ xPc = "idle"

\* 'Generate Contract': st.session_state.extracted_data =
\* extraction_agent.extract(combined_text)
Extract(answer) ==
    /\ UNCHANGED <<rvars, evars, uvars, gvars, ovars>>
    /\ xPc = "upload"
    /\ xExtracted' = extract(answer)
    /\ xPc' = "extracted"
    /\ UNCHANGED <<xEdited, xUserEdit, xRecord, xFilled>>

\* The form: edited_data built from the widgets, which start from the
\* extraction result; the user leaves them or types another client name.
EditForm(typed) ==
    /\ UNCHANGED <<rvars, evars, uvars, gvars, ovars>>
    /\ xPc = "extracted"
    /\ xUserEdit' = (typed # <<>>)
    /\ xEdited' = IF typed # <<>>
                  THEN [EditedData(xExtracted) EXCEPT !.client_name = typed]
                  ELSE EditedData(xExtracted)
    /\ xPc' = "edited"
    /\ UNCHANGED <<xExtracted, xRecord, xFilled>>

\* 'Generate Final Contract': contract_data = ContractData(**edited_data)
\* and generate_contract(contract_data, output_path), seen on one
\* paragraph of the template.
Generate ==
    /\ UNCHANGED <<rvars, evars, uvars, gvars, ovars>>
    /\ xPc = "edited"
    /\ xRecord' = ContractDataOf(xEdited)
    /\ xFilled' = ResolveFields(xFilled, ContractDataOf(xEdited))
    /\ xPc' = "generated"
    /\ UNCHANGED <<xExtracted, xEdited, xUserEdit>>

XNext ==
    \/ \E answer \in Answers : Extract(answer)
    \/ \E typed \in { <<>>, <<"Acme Ltd">> } : EditForm(typed)
    \/ Generate

-----------------------------------------------------------------------------
(* Specifications *)

InitResolver == RInit /\ EIdle /\ UIdle /\ GIdle /\ OIdle /\ XIdle
InitEngine == EInit /\ RIdle /\ UIdle /\ GIdle /\ OIdle /\ XIdle
InitUpload == UInit /\ RIdle /\ EIdle /\ GIdle /\ OIdle /\ XIdle
InitGenerate == GInit /\ RIdle /\ EIdle /\ UIdle /\ OIdle /\ XIdle
InitOrder == OInit /\ RIdle /\ EIdle /\ UIdle /\ GIdle /\ XIdle
InitExtract == XInit /\ RIdle /\ EIdle /\ UIdle /\ GIdle /\ OIdle

\* The resolver on one text.
SpecResolver == InitResolver /\ [][RNext]_vars

\* The engine on one template.
Spec == InitEngine /\ [][ENext]_vars

\* The engine called twice on one document.
SpecRerun == InitEngine /\ [][ERerunNext]_vars

\* process_documents on one list of uploaded files.
SpecUpload == InitUpload /\ [][UNext]_vars

\* The generation handler in two sessions.
SpecGenerate == InitGenerate /\ [][GNext]_vars

\* The loop over the fields on one text, in any order of the fields, and a
\* second time on its own result.
SpecOrder == InitOrder /\ [][ONext]_vars

\* One extraction, the form and one generation.
SpecExtract == InitExtract /\ [][XNext]_vars

-----------------------------------------------------------------------------
(* Claims about the engine *)

\* cell.text of python-docx: the cell's paragraphs joined by "\n".
CellText(cell) == Join(cell, <<"\n">>)

TableText(table) ==
    [r \in 1..Len(table.rows) |->
        [c \in 1..Len(table.rows[r]) |-> CellText(table.rows[r][c])]]

RowTexts(row) ==
    UNION { {row[c][p] : p \in 1..Len(row[c])} : c \in 1..Len(row) }

TableTexts(table) ==
    UNION { RowTexts(table.rows[r]) : r \in 1..Len(table.rows) }

\* Every text of a document: its paragraphs and its cells' paragraphs.
DocTexts(d) ==
    {d.paragraphs[i] : i \in 1..Len(d.paragraphs)}
    \cup UNION { TableTexts(d.tables[t]) : t \in 1..Len(d.tables) }

PlaceholderNames == Fields \cup {"machine_name"}

PlaceholderFree(d) ==
    \A text \in DocTexts(d) : \A k \in PlaceholderNames : ~Contains(text, SingleBrace(k))

\* The table is one the engine rebuilds row by row.
IsExpanded(table, rec) ==
    /\ \E text \in TableTexts(table) : TextHasMachine(text)
    /\ rec.machine_names # <<>>
    /\ Len(table.rows) >= 2

\* C1: a machine table of a header row and one template row has, after
\* _replace_placeholders with N >= 1 machine names, 1 + N rows, and the
\* text of every cell of data row k is the text of the template row's cell
\* (all its paragraphs) with machine_name replaced by the k-th name and the
\* Record's fields resolved.
C1_RowPerMachineName ==
    ePc = "replaced" =>
        \A t \in 1..Len(prevDoc.tables) :
            LET T == prevDoc.tables[t]
                D == doc.tables[t]
                names == data.machine_names
            IN  (is_machine_table(T) /\ Len(T.rows) = 2 /\ Len(names) >= 1) =>
                    /\ Len(D.rows) = 1 + Len(names)
                    /\ \A k \in 1..Len(names) : \A i \in 1..Len(T.rows[2]) :
                        /\ i <= Len(D.rows[k + 1])
                        /\ CellText(D.rows[k + 1][i]) =
                             Join([p \in 1..Len(T.rows[2][i]) |->
                                      CellParagraphText(T.rows[2][i][p], names[k], data)],
                                  <<"\n">>)

\* C3 as claimed: with a template that holds no placeholder, every
\* paragraph and every table's rows and cells have the input's text after
\* _replace_placeholders, machine tables too.
C3_VerbatimEverywhere ==
    (ePc = "replaced" /\ PlaceholderFree(prevDoc)) =>
        /\ doc.paragraphs = prevDoc.paragraphs
        /\ \A t \in 1..Len(prevDoc.tables) :
                TableText(doc.tables[t]) = TableText(prevDoc.tables[t])

\* C3 as amended: with a template that holds no placeholder, every
\* paragraph, and every table that is not rebuilt as a machine table (it
\* has no 'machine' text, or machine_names is empty, or it has fewer than
\* 2 rows), has the input's text after _replace_placeholders, rows in the
\* same order.
C3_VerbatimUnlessExpanded ==
    (ePc = "replaced" /\ PlaceholderFree(prevDoc)) =>
        /\ doc.paragraphs = prevDoc.paragraphs
        /\ \A t \in 1..Len(prevDoc.tables) :
                ~IsExpanded(prevDoc.tables[t], data) =>
                    TableText(doc.tables[t]) = TableText(prevDoc.tables[t])

\* A template without placeholders whose table names machines and has a
\* data row, run with no machine names.
C3_Witness ==
    /\ ePc = "replaced"
    /\ PlaceholderFree(prevDoc)
    /\ data.machine_names = <<>>
    /\ \E t \in 1..Len(prevDoc.tables) :
            is_machine_table(prevDoc.tables[t]) /\ Len(prevDoc.tables[t].rows) >= 2

\* C4: with machine names and a machine table of a header row and a
\* template row, no placeholder {f} or {{f}} of a field f of the Record is
\* left anywhere in the document after _replace_placeholders, the machine
\* table's header row included.
C4_NoFieldPlaceholderLeft ==
    (/\ ePc = "replaced"
     /\ data.machine_names # <<>>
     /\ \E t \in 1..Len(prevDoc.tables) :
            is_machine_table(prevDoc.tables[t]) /\ Len(prevDoc.tables[t].rows) >= 2) =>
        \A text \in DocTexts(doc) : \A f \in Fields :
            ~Contains(text, SingleBrace(f)) /\ ~Contains(text, DoubleBrace(f))

\* C10: _replace_placeholders changes a table's number of rows only when
\* the table is a machine table of at least 2 rows and machine_names is
\* not empty; a table that is no machine table, or any table when
\* machine_names is empty, keeps its rows, every paragraph of every cell
\* resolved in place; a machine table of fewer than 2 rows keeps its rows
\* as they are.
C10_RowsChangeOnlyByExpansion ==
    ePc = "replaced" =>
        \A t \in 1..Len(prevDoc.tables) :
            LET T == prevDoc.tables[t]
                D == doc.tables[t]
                names == data.machine_names
            IN  /\ Len(D.rows) # Len(T.rows) =>
                        (is_machine_table(T) /\ Len(T.rows) >= 2 /\ names # <<>>)
                /\ (~is_machine_table(T) \/ names = <<>>) =>
                        D.rows = [r \in 1..Len(T.rows) |->
                                    [c \in 1..Len(T.rows[r]) |->
                                        [p \in 1..Len(T.rows[r][c]) |->
                                            ResolveFields(T.rows[r][c][p], data)]]]
                /\ (is_machine_table(T) /\ names # <<>> /\ Len(T.rows) < 2) =>
                        D.rows = T.rows

\* A machine table run with no machine names, a field of its cells
\* resolved in place.
C10_Witness ==
    /\ ePc = "replaced"
    /\ data.machine_names = <<>>
    /\ \E t \in 1..Len(prevDoc.tables) :
            /\ is_machine_table(prevDoc.tables[t])
            /\ Len(prevDoc.tables[t].rows) >= 2
            /\ doc.tables[t] # prevDoc.tables[t]

\* C6: a second _replace_placeholders on the document the first one left
\* gives the machine table a header and one row per machine name of the
\* second Record, row k the template's own template row filled with the
\* k-th name; with the same Record the table is as the first call left it.
C6_RerunFromTemplateRow ==
    ePc = "rerun" =>
        \A t \in 1..Len(tmpl.tables) :
            LET T == tmpl.tables[t]
                D == doc.tables[t]
                names == data.machine_names
            IN  (/\ is_machine_table(T) /\ Len(T.rows) >= 2
                 /\ prevData.machine_names # <<>> /\ names # <<>>) =>
                    /\ D.rows = <<T.rows[1]>> \o
                                [k \in 1..Len(names) |->
                                    NewRow(T.rows[2], names[k], data, T.grid)]
                    /\ data = prevData => D = prevDoc.tables[t]

-----------------------------------------------------------------------------
(* Claims about the resolver *)

\* The places where sub occurs in text.
Occurrences(text, sub) ==
    {i \in 1..(Len(text) - Len(sub) + 1) : SubSeq(text, i, i + Len(sub) - 1) = sub}

\* Names a text may hold in braces that are no field of the Record.
UnknownNames == {"U", "a"}

\* C2: when the text holds {X} or {{X}} for a field X of the Record, the
\* text replace_in_text gives for X holds the string form of X's value (a
\* list joined with ", ", a date as DD Mon, YYYY, str() otherwise) and
\* holds neither {X} nor {{X}}.
C2_ValueInAndPlaceholderGone ==
    (rPc = "one" /\ Contains(rIn, SingleBrace(rKey))) =>
        /\ Contains(rOut, NormalizeValue(FieldValue(rData, rKey)))
        /\ ~Contains(rOut, SingleBrace(rKey))
        /\ ~Contains(rOut, DoubleBrace(rKey))

\* C5: a placeholder {U} of a name U that is no field of the Record is
\* left as it is by the loop over the fields: the resolved text holds {U}
\* as many times as the text did, or more.
C5_UnknownPlaceholderKept ==
    rPc = "all" =>
        \A U \in UnknownNames :
            Cardinality(Occurrences(rOut, SingleBrace(U)))
                >= Cardinality(Occurrences(rIn, SingleBrace(U)))

-----------------------------------------------------------------------------
(* Claims about process_documents *)

\* What the files that did not fail give: each text that is not empty,
\* in upload order, with a blank line after it, the whole stripped.
ExpectedCombined(files, failed) ==
    Strip(Flatten([i \in 1..Len(files) |->
                      IF i \in failed \/ files[i].text = <<>>
                      THEN <<>>
                      ELSE files[i].text \o <<"\n", "\n">>]),
          Whitespace)

\* C9: whatever files fail in saving or in text extraction,
\* process_documents does not raise; it returns the texts of the files
\* that did not fail, in upload order, and nothing of those that failed;
\* and every temporary file is removed, or the failure to remove it is
\* logged.
C9_BatchSurvivesFailures ==
    /\ upPc # "raised"
    /\ upPc = "done" =>
            /\ upResult = ExpectedCombined(uploads, upFailed)
            /\ \A f \in tempFiles : <<"cleanup_error", f.path>> \in upLog

-----------------------------------------------------------------------------
(* Claims about the generation handler *)

\* C7: no two runs of the handler have the same output path, whatever the
\* second they start in and whatever their purchase orders, and no run
\* overwrites or removes a file another run wrote.
C7_RunsNeverShareAPath ==
    /\ \A s, t \in Sessions :
            (s # t /\ gRun[s].path # NoPath /\ gRun[t].path # NoPath) =>
                gRun[s].path # gRun[t].path
    /\ gLost = {}

-----------------------------------------------------------------------------
(* Claims about the cells of generated rows *)

\* C14: in the expansion of a machine table, every cell of every generated
\* row holds, paragraph by paragraph and in paragraph order, the resolved
\* text of the paragraphs of the template row's cell at the same position:
\* no paragraph of a template cell is dropped or overwritten.
C14_EveryParagraphCopied ==
    ePc = "replaced" =>
        \A t \in 1..Len(prevDoc.tables) :
            LET T == prevDoc.tables[t]
                D == doc.tables[t]
                names == data.machine_names
            IN  (is_machine_table(T) /\ Len(T.rows) >= 2 /\ names # <<>>) =>
                    \A k \in 1..Len(names) : \A i \in 1..Len(T.rows[2]) :
                        /\ k + 1 <= Len(D.rows)
                        /\ i <= Len(D.rows[k + 1])
                        /\ D.rows[k + 1][i] =
                             [p \in 1..Len(T.rows[2][i]) |->
                                 CellParagraphText(T.rows[2][i][p], names[k], data)]

-----------------------------------------------------------------------------
(* Claims about the loop over the fields *)

\* C11: whatever order the fields of the Record are applied in, resolving
\* them all on a text gives what the code's order (client_name,
\* effective_date, machine_names, subscription_duration_months,
\* purchase_order, address) gives; the texts hold no number of the Record.
C11_FieldOrderDoesNotMatter ==
    oPc = "resolved" => oOut = ResolveFields(oText, oData)

\* C12: resolving the fields of the same Record a second time on a text
\* that has been resolved leaves the text as it is.
C12_SecondResolutionIsNoOp ==
    oPc = "again" => oAgain = oOut

-----------------------------------------------------------------------------
(* Claims about the way from the extraction to the Record *)

\* C13: when the extraction result carries an address A and the user
\* edits nothing in the form, the Record passed to generate_contract has
\* the address A and the {address} placeholder of the template is filled
\* with A.
C13_AddressReachesTheRecord ==
    (xPc = "generated" /\ ~xUserEdit /\ "address" \in DOMAIN xExtracted) =>
        /\ xRecord.address = xExtracted.address
        /\ xFilled = <<"Address: ">> \o xExtracted.address

====
